---- MODULE Spec2Model ----
(***************************************************************************)
(* pi_ano: a 4x4 key matrix is sampled in a polling loop; updateKeys turns *)
(* the sample into note-on / note-off / octave events and binds the four   *)
(* buzzer pins to sounding keys; the loop also feeds the watchdog.         *)
(*                                                                         *)
(* The specifications share the definitions of the program:                *)
(*   Spec      drives updateKeys with arbitrary snapshots, one step per    *)
(*             iteration of its cell loop (pos is the loop position); an   *)
(*             entry of the snapshot is drawn when its cell reads it, and  *)
(*             a call may repeat the snapshot of the call before;          *)
(*   MainSpec  is the loop of main: scan, updateKeys, watchdog check, the  *)
(*             SIGINT handler and the shutdown sequence, for every         *)
(*             configurable timeout;                                       *)
(*   StopSpec  is the same loop under short timeouts with main's steps     *)
(*             weakly fair, for the shutdown's liveness;                   *)
(*   ScanSpec  is the same loop with the scan followed through each call   *)
(*             of pulseEntry (column high, read, column low);              *)
(*   FreqSpec  applies keyToFreq to every piano key and octave;            *)
(*   ConfigSpec reads a configuration file character by character, as      *)
(*             setValuesFromConfig does;                                   *)
(*   BootSpec  is main from its first statement: configuration, log file,  *)
(*             GPIO set-up, watchdog device, then the loop;                *)
(*   OldSpec   is the loop of the early variant pi_ano_old.c, one key and  *)
(*             one slot at a time.                                         *)
(***************************************************************************)
EXTENDS Integers, Sequences, FiniteSets, TLC

\* ------------------------------------------------------------ constants

MATRIX_ROWS == 4

MATRIX_COLS == 4

MAX_BUZZERS == 4

\* const int buzzerPins[4], indexed from 0 as in the source
buzzerPins == [k \in 0..3 |-> <<14, 15, 18, 23>>[k + 1]]

\* const int keys[4][4], indexed keys[row][column] from 0 as in the source
keys == [i \in 0..3 |-> [j \in 0..3 |->
            << <<0, 1, 2, 3>>, <<4, 5, 6, 7>>, <<8, 9, 10, 11>>, <<12, 13, 14, 15>> >>[i + 1][j + 1]]]

\* The all-zero initialiser of activeKeyMatrix and activeBuzzerMatrix
ZeroMatrix == [i \in 0..3 |-> [j \in 0..3 |-> 0]]

\* Milliseconds one scan adds to the watchdog timer (timer += 48)
SCAN_MS == 48

\* int currentOctave = 4
DefaultOctave == 4

\* Octave range accepted by setValuesFromConfig
ConfigOctaves == 1..4

\* Watchdog timeouts accepted by setValuesFromConfig
ConfigTimeouts == 1..15

\* ------------------------------------------------------------ bounds

\* The keys that are pressed at all in one run: one group exercises the
\* octave keys, the ends of the chromatic range and the unused key, the
\* other holds five chromatic keys, one more than there are buzzers.
KeyGroups == { {0, 1, 2, 14, 15}, {2, 3, 7, 8, 14} }

\* Six chromatic keys, two more than there are buzzers: pressed in runs that
\* start at the default octave
CrowdKeys == {2, 3, 7, 8, 13, 14}

\* The keys pressed while the loop of main is followed (key 2 is cell (0,2))
LoopKeys == {2}

\* The loop of main is followed until this many keepalives were sent
MaxPulses == 2

\* The largest watchdog timeout under which the shutdown is followed
MaxStopTimeout == 2

\* The keys of pi_ano_old.c that are ever read as pressed: the four of one
\* matrix column and one more
OldKeys == {0, 1, 2, 3, 4}

\* The characters a configuration file is made of
ConfigChars == {"#", ":", " ", "\n", "1", "9", "x"}

\* The most characters of one line of the configuration file, its newline included
MaxLineLen == 5

\* The most lines of the configuration file
MaxLines == 3

\* The configuration files main is started with when its start-up is followed to
\* the loop: octave 1, timeout 1 and a log path; a comment, an octave out of
\* range and nothing else
ConfigFiles ==
    { <<"x", ":", " ", "1", "\n", "x", ":", " ", "1", "\n", "x", ":", " ", "x", "\n">>,
      <<"#", "x", "\n", "x", ":", " ", "9", "\n">> }

\* ------------------------------------------------------------ keyToFreq

\* pow(basis, e) for e = key - 11 in -11..15, in millionths
BasisPow == [e \in -11..15 |->
    << 529732, 561231, 594604, 629961, 667420, 707107, 749154, 793701,
       840896, 890899, 943874, 1000000, 1059463, 1122462, 1189207, 1259921,
       1334840, 1414214, 1498307, 1587401, 1681793, 1781797, 1887749,
       2000000, 2118926, 2244924, 2378414 >>[e + 12]]

RECURSIVE Pow2(_)
Pow2(n) == IF n <= 0 THEN 1 ELSE 2 * Pow2(n - 1)

\* 440 * pow(basis, key - 11) * pow(2, octave - 4), in units of 1/100000 Hz
ScaledFreq(key, octave) ==
    LET trueOctave == octave - 4
        a4 == (440 * BasisPow[key - 11]) \div 10
    IN  IF trueOctave >= 0 THEN a4 * Pow2(trueOctave)
                           ELSE a4 \div Pow2(-trueOctave)

\* The cast alone: the one half is not added
keyToFreq_Truncates(key, octave) == ScaledFreq(key, octave) \div 100000

\* (int)(x + 0.5): add one half, then truncate
keyToFreq(key, octave) == (ScaledFreq(key, octave) + 50000) \div 100000

\* ------------------------------------------------------------ state

VARIABLES
    activeKeyMatrix,     \* int activeKeyMatrix[4][4]
    activeBuzzerMatrix,  \* int activeBuzzerMatrix[4][4]
    activeBuzzers,       \* int activeBuzzers[4]
    buzzerCount,         \* int buzzerCount
    currentOctave,       \* int currentOctave
    softTone,            \* the tone backend: frequency written last to each pin
    toneCalls,           \* the softToneWrite calls of the latest step, in order
    updatedMatrix,       \* updateKeys' argument (in Spec: the entries read so far,
                         \* the others still those of the call before)
    pos,                 \* updateKeys' loop position i*4+j; 16 when it has returned
    same,                \* the call of updateKeys got the snapshot of the call before
    played,              \* the keys pressed at all in this run
    retried,             \* the iteration just made was for a cell that the call
                         \* before had read as pressed and left inactive
    starved,             \* in this call a chromatic press was dropped and no voice
                         \* has been freed since
    pc,                  \* where main is
    snapshot,            \* main's int snapshot[4][4]
    timer,               \* main's int timer
    watchDogTimer,       \* int watchDogTimer
    keepRunning,         \* static volatile int keepRunning
    iterations,          \* loop iterations started
    scans,               \* snapshots completed
    updates,             \* updateKeys calls made by main
    checks,              \* watchdog threshold checks made
    pulseIters,          \* the iteration of each WDIOC_KEEPALIVE call, in order
    sincePulse,          \* scans since the last keepalive (or since start-up)
    disarms,             \* "V" writes to the watchdog
    afterDisarm,         \* keepalives sent after a "V" write
    logOpen,             \* the log file is open
    exitCode,            \* main's return value; -2 while it has not returned
    sigAt,               \* iterations started when SIGINT first arrived; -1 before
    probe,               \* a call of keyToFreq on its own: arguments and results
    parser,              \* the locals of setValuesFromConfig while it runs
    logFileLocation,     \* main's char logFileLocation[100]
    gpio,                \* what wiringPiSetupGpio and initPins have done
    outputs,             \* the level of each column line outputPins[0..3]
    scanAt,              \* the pulseEntry call the scan is at: col*4+row; 0 outside
    pulse,               \* where that call is ("idle", "high", "read") and its rowValue
    driven,              \* per column, the times its line was set high in this scan
    waits,               \* the settle waits (delay(3)) of this scan
    old                  \* pi_ano_old.c: its globals, its tone backend, where its loop is

keyVars == <<activeKeyMatrix, activeBuzzerMatrix, activeBuzzers, buzzerCount,
             currentOctave, softTone, toneCalls, updatedMatrix>>

callVars == <<pos, same, played, retried, starved>>

mainVars == <<pc, snapshot, timer, watchDogTimer, keepRunning, iterations, scans,
              updates, checks, pulseIters, sincePulse, disarms, afterDisarm, logOpen,
              exitCode, sigAt>>

\* What the start-up of main and the calls outside the loop work on
auxVars == <<probe, parser, logFileLocation, gpio, outputs, scanAt, pulse, driven, waits,
             old>>

vars == <<keyVars, callVars, mainVars, auxVars>>

\* ------------------------------------------------------------ helpers

Row(p) == p \div MATRIX_COLS

Col(p) == p % MATRIX_COLS

\* The pins softToneWrite is given: a buzzer pin, or 0 (buzzerPin's initial value)
TonePins == {0} \cup {buzzerPins[k] : k \in 0..(MAX_BUZZERS - 1)}

\* The program's globals as one value, with the calls made so far
Globals ==
    [activeKeyMatrix |-> activeKeyMatrix, activeBuzzerMatrix |-> activeBuzzerMatrix,
     activeBuzzers |-> activeBuzzers, buzzerCount |-> buzzerCount,
     currentOctave |-> currentOctave, tone |-> <<>>]

\* softToneWrite(pin, freq)
softToneWrite(g, pin, freq) ==
    [g EXCEPT !.tone = Append(@, [pin |-> pin, freq |-> freq])]

RECURSIVE ApplyCalls(_, _)
ApplyCalls(tone, calls) ==
    IF calls = <<>> THEN tone
    ELSE ApplyCalls([tone EXCEPT ![Head(calls).pin] = Head(calls).freq], Tail(calls))

\* ------------------------------------------------------------ buzzers

clearFrequency(g, buzzerPin) == softToneWrite(g, buzzerPin, 0)

\* The count is tested as if the new voice had been counted already
playFrequency_CountedFirst(g, key, octave, buzzerPin) ==
    IF octave > 0 /\ octave < 8
    THEN IF g.buzzerCount + 1 < 4
         THEN softToneWrite(g, buzzerPin, keyToFreq(key, octave))
         ELSE g
    ELSE g

playFrequency(g, key, octave, buzzerPin) ==
    IF octave > 0 /\ octave < 8
    THEN IF g.buzzerCount < 4
         THEN softToneWrite(g, buzzerPin, keyToFreq(key, octave))
         ELSE g
    ELSE g

\* The slot of the pin is not looked up: slot 0 is cleared
disableBuzzer_FirstSlot(g, pin) ==
    LET g1 == clearFrequency(g, pin)
    IN  [g1 EXCEPT !.activeBuzzers[0] = 0, !.buzzerCount = @ - 1]

\* The count of bound buzzers is not lowered
disableBuzzer_NoCount(g, pin) ==
    LET g1 == clearFrequency(g, pin)
    IN  [g1 EXCEPT !.activeBuzzers =
                       [k \in 0..(MAX_BUZZERS - 1) |-> IF @[k] = pin THEN 0 ELSE @[k]]]

disableBuzzer(g, pin) ==
    LET g1 == clearFrequency(g, pin)
    IN  [g1 EXCEPT !.activeBuzzers =
                       [k \in 0..(MAX_BUZZERS - 1) |-> IF @[k] = pin THEN 0 ELSE @[k]],
                   !.buzzerCount = @ - 1]

\* ------------------------------------------------------------ updateKeys

\* Off by one: a fifth voice is admitted
BuzzerAvailable_OffByOne(g) == g.buzzerCount <= MAX_BUZZERS

\* if (buzzerCount < MAX_BUZZERS)
BuzzerAvailable(g) == g.buzzerCount < MAX_BUZZERS

\* The search does not test activeBuzzers: it always stops at slot 0
FreeSlot_IgnoresUse(g) == 0

\* The search runs from the last slot down
FreeSlot_FromLast(g) ==
    LET free == {k \in 0..(MAX_BUZZERS - 1) : g.activeBuzzers[k] = 0}
    IN  IF free = {} THEN -1 ELSE CHOOSE k \in free : \A m \in free : k >= m

\* The slot the search loop stops at: the first k with !activeBuzzers[k]; -1 if none
FreeSlot(g) ==
    LET free == {k \in 0..(MAX_BUZZERS - 1) : g.activeBuzzers[k] = 0}
    IN  IF free = {} THEN -1 ELSE CHOOSE k \in free : \A m \in free : k <= m

\* The cell is marked before the pool is tested: a dropped press is marked too
PressKey_MarksWhenFull(g, i, j) ==
    IF keys[i][j] >= 2 /\ keys[i][j] <= 14
    THEN LET g1 == [g EXCEPT !.activeKeyMatrix[i][j] = 1]
             slot == FreeSlot(g1)
             buzzerPin == IF slot = -1 THEN 0 ELSE buzzerPins[slot]
             g2 == IF slot = -1 THEN g1 ELSE [g1 EXCEPT !.activeBuzzers[slot] = buzzerPin]
             g3 == playFrequency(g2, keys[i][j], g2.currentOctave, buzzerPin)
         IN  IF BuzzerAvailable(g)
             THEN [g3 EXCEPT !.activeBuzzerMatrix[i][j] = buzzerPin, !.buzzerCount = @ + 1]
             ELSE g1
    ELSE g

\* The count of bound buzzers is not raised
PressKey_NoCount(g, i, j) ==
    IF BuzzerAvailable(g) /\ keys[i][j] >= 2 /\ keys[i][j] <= 14
    THEN LET g1 == [g EXCEPT !.activeKeyMatrix[i][j] = 1]
             slot == FreeSlot(g1)
             buzzerPin == IF slot = -1 THEN 0 ELSE buzzerPins[slot]
             g2 == IF slot = -1 THEN g1 ELSE [g1 EXCEPT !.activeBuzzers[slot] = buzzerPin]
             g3 == playFrequency(g2, keys[i][j], g2.currentOctave, buzzerPin)
         IN  [g3 EXCEPT !.activeBuzzerMatrix[i][j] = buzzerPin]
    ELSE g

\* The range test starts at key 0: the octave keys are given a voice too
PressKey_TakesOctaveKeys(g, i, j) ==
    IF BuzzerAvailable(g) /\ keys[i][j] >= 0 /\ keys[i][j] <= 14
    THEN LET g1 == [g EXCEPT !.activeKeyMatrix[i][j] = 1]
             slot == FreeSlot(g1)
             buzzerPin == IF slot = -1 THEN 0 ELSE buzzerPins[slot]
             g2 == IF slot = -1 THEN g1 ELSE [g1 EXCEPT !.activeBuzzers[slot] = buzzerPin]
             g3 == playFrequency(g2, keys[i][j], g2.currentOctave, buzzerPin)
         IN  [g3 EXCEPT !.activeBuzzerMatrix[i][j] = buzzerPin, !.buzzerCount = @ + 1]
    ELSE g

\* A new chromatic key: bind a buzzer, play, count
PressKey(g, i, j) ==
    IF BuzzerAvailable(g) /\ keys[i][j] >= 2 /\ keys[i][j] <= 14
    THEN LET g1 == [g EXCEPT !.activeKeyMatrix[i][j] = 1]
             slot == FreeSlot(g1)
             buzzerPin == IF slot = -1 THEN 0 ELSE buzzerPins[slot]
             g2 == IF slot = -1 THEN g1 ELSE [g1 EXCEPT !.activeBuzzers[slot] = buzzerPin]
             g3 == playFrequency(g2, keys[i][j], g2.currentOctave, buzzerPin)
         IN  [g3 EXCEPT !.activeBuzzerMatrix[i][j] = buzzerPin, !.buzzerCount = @ + 1]
    ELSE g

\* Off by one: the octave may reach 5
OctaveBelowMax_OffByOne(g) == g.currentOctave <= 4

\* if (currentOctave < 4)
OctaveBelowMax(g) == g.currentOctave < 4

\* if (currentOctave > 1)
OctaveAboveMin(g) == g.currentOctave > 1

\* The cell of an octave key is not marked when its press takes effect
PressOctave_NoMark(g, i, j) ==
    IF keys[i][j] = 0
    THEN IF OctaveBelowMax(g) THEN [g EXCEPT !.currentOctave = @ + 1] ELSE g
    ELSE IF keys[i][j] = 1
         THEN IF OctaveAboveMin(g) THEN [g EXCEPT !.currentOctave = @ - 1] ELSE g
         ELSE g

\* The two keys are exchanged: key 0 lowers, key 1 raises
PressOctave_Swapped(g, i, j) ==
    IF keys[i][j] = 1
    THEN IF OctaveBelowMax(g)
         THEN [g EXCEPT !.currentOctave = @ + 1, !.activeKeyMatrix[i][j] = 1]
         ELSE g
    ELSE IF keys[i][j] = 0
         THEN IF OctaveAboveMin(g)
              THEN [g EXCEPT !.currentOctave = @ - 1, !.activeKeyMatrix[i][j] = 1]
              ELSE g
         ELSE g

\* The octave keys: key 0 raises, key 1 lowers, within the range
PressOctave(g, i, j) ==
    IF keys[i][j] = 0
    THEN IF OctaveBelowMax(g)
         THEN [g EXCEPT !.currentOctave = @ + 1, !.activeKeyMatrix[i][j] = 1]
         ELSE g
    ELSE IF keys[i][j] = 1
         THEN IF OctaveAboveMin(g)
              THEN [g EXCEPT !.currentOctave = @ - 1, !.activeKeyMatrix[i][j] = 1]
              ELSE g
         ELSE g

\* The active mark of a released chromatic key is not cleared
ReleaseKey_KeepsMark(g, i, j) ==
    IF keys[i][j] >= 2 /\ keys[i][j] <= 14
    THEN LET g1 == disableBuzzer(g, g.activeBuzzerMatrix[i][j])
         IN  [g1 EXCEPT !.activeBuzzerMatrix[i][j] = 0]
    ELSE IF keys[i][j] >= 0 /\ keys[i][j] <= 2
         THEN [g EXCEPT !.activeKeyMatrix[i][j] = 0]
         ELSE g

\* A key is being released
ReleaseKey(g, i, j) ==
    IF keys[i][j] >= 2 /\ keys[i][j] <= 14
    THEN LET g1 == disableBuzzer(g, g.activeBuzzerMatrix[i][j])
         IN  [g1 EXCEPT !.activeBuzzerMatrix[i][j] = 0, !.activeKeyMatrix[i][j] = 0]
    ELSE IF keys[i][j] >= 0 /\ keys[i][j] <= 2
         THEN [g EXCEPT !.activeKeyMatrix[i][j] = 0]
         ELSE g

\* The release branch does not ask whether the cell is marked active
updateCell_ReleasesUnmarked(g, v, i, j) ==
    IF v = 1 /\ g.activeKeyMatrix[i][j] = 0
    THEN PressOctave(PressKey(g, i, j), i, j)
    ELSE IF v = 0
         THEN ReleaseKey(g, i, j)
         ELSE g

\* The mark of the cell is set to the entry read, whatever the press did
updateCell_CopiesSnapshot(g, v, i, j) ==
    LET h == IF v = 1 /\ g.activeKeyMatrix[i][j] = 0
             THEN PressOctave(PressKey(g, i, j), i, j)
             ELSE IF v = 0 /\ g.activeKeyMatrix[i][j] = 1
                  THEN ReleaseKey(g, i, j)
                  ELSE g
    IN  [h EXCEPT !.activeKeyMatrix[i][j] = v]

\* The body of updateKeys' loop for cell (i,j), v being updatedMatrix[i][j]
updateCell(g, v, i, j) ==
    IF v = 1 /\ g.activeKeyMatrix[i][j] = 0
    THEN PressOctave(PressKey(g, i, j), i, j)
    ELSE IF v = 0 /\ g.activeKeyMatrix[i][j] = 1
         THEN ReleaseKey(g, i, j)
         ELSE g

\* updateKeys from loop position p on: rows outermost, columns innermost
\* (h is the globals after the cell at p)
RECURSIVE updateFrom(_, _, _)
updateFrom(g, m, p) ==
    IF p >= MATRIX_ROWS * MATRIX_COLS THEN g
    ELSE CHOOSE r \in {updateFrom(h, m, p + 1) :
                          h \in {updateCell(g, m[Row(p)][Col(p)], Row(p), Col(p))}} : TRUE

updateKeys(g, m) == updateFrom(g, m, 0)

\* The globals and the tone backend after the step that produced g
Store(g) ==
    /\ activeKeyMatrix' = g.activeKeyMatrix
    /\ activeBuzzerMatrix' = g.activeBuzzerMatrix
    /\ activeBuzzers' = g.activeBuzzers
    /\ buzzerCount' = g.buzzerCount
    /\ currentOctave' = g.currentOctave
    /\ toneCalls' = g.tone
    /\ softTone' = ApplyCalls(softTone, g.tone)

\* ------------------------------------------------------------ Spec

\* A snapshot holding exactly the keys of ks
MatrixOf(ks) == [i \in 0..3 |-> [j \in 0..3 |-> IF keys[i][j] \in ks THEN 1 ELSE 0]]

KeyInit(octaves) ==
    /\ activeKeyMatrix = ZeroMatrix
    /\ activeBuzzerMatrix = ZeroMatrix
    /\ activeBuzzers = [k \in 0..(MAX_BUZZERS - 1) |-> 0]
    /\ buzzerCount = 0
    /\ currentOctave \in octaves
    /\ softTone = [p \in TonePins |-> 0]
    /\ toneCalls = <<>>
    /\ updatedMatrix = ZeroMatrix
    /\ pos = MATRIX_ROWS * MATRIX_COLS
    /\ same = FALSE
    /\ retried = FALSE
    /\ starved = FALSE

MainStart(at) ==
    /\ pc = at
    /\ snapshot = ZeroMatrix
    /\ timer = 0
    /\ keepRunning = 1
    /\ iterations = 0
    /\ scans = 0
    /\ updates = 0
    /\ checks = 0
    /\ pulseIters = <<>>
    /\ sincePulse = 0
    /\ disarms = 0
    /\ afterDisarm = 0
    /\ logOpen = TRUE
    /\ exitCode = -2
    /\ sigAt = -1

\* pi_ano_old.c is not running
NoOld == [phase |-> "off"]

\* No call of keyToFreq on its own is under way
NoProbe == [key |-> 0, octave |-> 0, out |-> <<>>]

\* setValuesFromConfig is not running
NoParser == [mode |-> "off"]

\* strncpy(logFileLocation, "/home/pi/pi_ano.log", 100)
DefaultLog == [kind |-> "default"]

\* logFileLocation as declared: never written
NoLog == [kind |-> "indeterminate"]

\* Before wiringPiSetupGpio: no pin configured, no tone generator created
NoGpio == [setup |-> "none", pinsReady |-> FALSE, tones |-> {}]

\* After initPins: matrix pins configured, a tone generator on every buzzer pin
GpioReady == [setup |-> "ok", pinsReady |-> TRUE,
              tones |-> {buzzerPins[k] : k \in 0..(MAX_BUZZERS - 1)}]

\* digitalWrite(outputPins[i], LOW) for every column
AllLow == [c \in 0..(MATRIX_COLS - 1) |-> 0]

\* No call of pulseEntry is under way
NoPulse == [at |-> "idle", rowValue |-> 0]

\* No scan is under way
ScanIdle == scanAt = 0 /\ pulse = NoPulse

\* No scan has begun: nothing was driven and nothing waited for
NoScanYet == driven = [c \in 0..(MATRIX_COLS - 1) |-> 0] /\ waits = 0

\* The start-up of main is over: default log, pins initialised, column lines low
AuxIdle ==
    /\ probe = NoProbe
    /\ parser = NoParser
    /\ logFileLocation = DefaultLog
    /\ gpio = GpioReady
    /\ outputs = AllLow
    /\ ScanIdle
    /\ NoScanYet
    /\ old = NoOld

Init ==
    /\ KeyInit(ConfigOctaves)
    /\ \/ played \in KeyGroups
       \/ played = CrowdKeys /\ currentOctave = DefaultOctave
    /\ watchDogTimer = 10
    /\ MainStart("driver")
    /\ AuxIdle

\* updateKeys is called with a new snapshot
CallUpdateKeys ==
    /\ pos = MATRIX_ROWS * MATRIX_COLS
    /\ pos' = 0
    /\ same' = FALSE
    /\ retried' = FALSE
    /\ starved' = FALSE
    /\ toneCalls' = <<>>
    /\ UNCHANGED <<activeKeyMatrix, activeBuzzerMatrix, activeBuzzers, buzzerCount,
                   currentOctave, softTone, updatedMatrix, played, mainVars, auxVars>>

\* updateKeys is called again with the snapshot of the call before
CallUpdateKeysAgain ==
    /\ pos = MATRIX_ROWS * MATRIX_COLS
    /\ pos' = 0
    /\ same' = TRUE
    /\ retried' = FALSE
    /\ starved' = FALSE
    /\ toneCalls' = <<>>
    /\ UNCHANGED <<activeKeyMatrix, activeBuzzerMatrix, activeBuzzers, buzzerCount,
                   currentOctave, softTone, updatedMatrix, played, mainVars, auxVars>>

\* One iteration of updateKeys' loop, reading v from the argument
CellStep(v) ==
    /\ \E g \in {updateCell(Globals, v, Row(pos), Col(pos))} : Store(g)
    /\ updatedMatrix' = [updatedMatrix EXCEPT ![Row(pos)][Col(pos)] = v]
    /\ pos' = pos + 1
    /\ retried' = (updatedMatrix[Row(pos)][Col(pos)] = 1 /\ activeKeyMatrix[Row(pos)][Col(pos)] = 0)
    /\ starved' = IF buzzerCount' < buzzerCount THEN FALSE
                  ELSE IF /\ v = 1
                          /\ keys[Row(pos)][Col(pos)] >= 2
                          /\ keys[Row(pos)][Col(pos)] <= 14
                          /\ activeKeyMatrix[Row(pos)][Col(pos)] = 0
                          /\ activeKeyMatrix'[Row(pos)][Col(pos)] = 0
                       THEN TRUE
                       ELSE starved
    /\ UNCHANGED <<same, played, mainVars, auxVars>>

ProcessCell ==
    /\ pos < MATRIX_ROWS * MATRIX_COLS
    /\ ~same
    /\ \E v \in {0, 1} :
          /\ v = 1 => keys[Row(pos)][Col(pos)] \in played
          /\ CellStep(v)

ProcessCellAgain ==
    /\ pos < MATRIX_ROWS * MATRIX_COLS
    /\ same
    /\ CellStep(updatedMatrix[Row(pos)][Col(pos)])

Next == CallUpdateKeys \/ CallUpdateKeysAgain \/ ProcessCell \/ ProcessCellAgain

Spec == Init /\ [][Next]_vars

\* ------------------------------------------------------------ main

\* The division by two is forgotten
HalfTimeoutMs_Full(wd) == wd * 1000

\* int wdTimeMs = watchDogTimer * 1000; the threshold is wdTimeMs / 2
HalfTimeoutMs(wd) == (wd * 1000) \div 2

\* Strictly greater instead of at least
PulseDue_Strict(t, wd) == t > HalfTimeoutMs(wd)

\* if (timer >= wdTimeMs / 2)
PulseDue(t, wd) == t >= HalfTimeoutMs(wd)

\* main has reached its loop: devices open, timer = 0, the octave the default
\* and the timeout any value the configuration can give
MainInit ==
    /\ KeyInit({DefaultOctave})
    /\ played = LoopKeys
    /\ watchDogTimer \in ConfigTimeouts
    /\ MainStart("loop")
    /\ AuxIdle

\* while (keepRunning)
LoopTest ==
    /\ pc = "loop"
    /\ IF keepRunning # 0
       THEN /\ Len(pulseIters) < MaxPulses
            /\ pc' = "scan"
            /\ iterations' = iterations + 1
       ELSE /\ pc' = "disarm"
            /\ UNCHANGED iterations
    /\ UNCHANGED <<auxVars, keyVars, callVars, snapshot, timer, watchDogTimer, keepRunning, scans,
                   updates, checks, pulseIters, sincePulse, disarms, afterDisarm, logOpen,
                   exitCode, sigAt>>

\* The 16 pulseEntry calls build the snapshot; then timer += 48
Scan ==
    /\ pc = "scan"
    /\ \E ks \in SUBSET played : snapshot' = MatrixOf(ks)
    /\ timer' = timer + SCAN_MS
    /\ scans' = scans + 1
    /\ sincePulse' = sincePulse + 1
    /\ pc' = "update"
    /\ driven' = [c \in 0..(MATRIX_COLS - 1) |-> MATRIX_ROWS]
    /\ waits' = MATRIX_ROWS * MATRIX_COLS
    /\ UNCHANGED <<probe, parser, logFileLocation, gpio, outputs, scanAt, pulse, old>>
    /\ UNCHANGED <<keyVars, callVars, watchDogTimer, keepRunning, iterations, updates,
                   checks, pulseIters, disarms, afterDisarm, logOpen, exitCode, sigAt>>

\* updateKeys(snapshot, logFile, time)
Update ==
    /\ pc = "update"
    /\ \E g \in {updateKeys(Globals, snapshot)} : Store(g)
    /\ updatedMatrix' = snapshot
    /\ updates' = updates + 1
    /\ pc' = "check"
    /\ UNCHANGED <<auxVars, callVars, snapshot, timer, watchDogTimer, keepRunning, iterations,
                   scans, checks, pulseIters, sincePulse, disarms, afterDisarm, logOpen,
                   exitCode, sigAt>>

\* The watchdog check that ends the loop body
Check ==
    /\ pc = "check"
    /\ checks' = checks + 1
    /\ IF PulseDue(timer, watchDogTimer)
       THEN /\ pulseIters' = Append(pulseIters, iterations)
            /\ afterDisarm' = IF disarms > 0 THEN afterDisarm + 1 ELSE afterDisarm
            /\ timer' = 0
            /\ sincePulse' = 0
       ELSE UNCHANGED <<pulseIters, afterDisarm, timer, sincePulse>>
    /\ pc' = "loop"
    /\ UNCHANGED <<auxVars, keyVars, callVars, snapshot, watchDogTimer, keepRunning, iterations,
                   scans, updates, disarms, logOpen, exitCode, sigAt>>

\* write(watchdog, "V", 1); close(watchdog)
Disarm ==
    /\ pc = "disarm"
    /\ disarms' = disarms + 1
    /\ pc' = "close"
    /\ UNCHANGED <<auxVars, keyVars, callVars, snapshot, timer, watchDogTimer, keepRunning,
                   iterations, scans, updates, checks, pulseIters, sincePulse,
                   afterDisarm, logOpen, exitCode, sigAt>>

\* fclose(logFile)
CloseLog ==
    /\ pc = "close"
    /\ logOpen' = FALSE
    /\ pc' = "return"
    /\ UNCHANGED <<auxVars, keyVars, callVars, snapshot, timer, watchDogTimer, keepRunning,
                   iterations, scans, updates, checks, pulseIters, sincePulse, disarms,
                   afterDisarm, exitCode, sigAt>>

\* return 0
Return ==
    /\ pc = "return"
    /\ exitCode' = 0
    /\ pc' = "exited"
    /\ UNCHANGED <<auxVars, keyVars, callVars, snapshot, timer, watchDogTimer, keepRunning,
                   iterations, scans, updates, checks, pulseIters, sincePulse, disarms,
                   afterDisarm, logOpen, sigAt>>

\* The handler leaves the flag as it was
FlagAfterSignal_Kept(flag) == flag

\* keepRunning = 0
FlagAfterSignal(flag) == 0

\* SIGINT is delivered while main runs
interruptHandler ==
    /\ pc \in {"start", "config", "openlog", "gpio", "watchdog",
               "loop", "scan", "update", "check", "disarm", "close", "return"}
    /\ keepRunning' = FlagAfterSignal(keepRunning)
    /\ sigAt' = IF sigAt = -1 THEN iterations ELSE sigAt
    /\ UNCHANGED <<auxVars, keyVars, callVars, pc, snapshot, timer, watchDogTimer, iterations,
                   scans, updates, checks, pulseIters, sincePulse, disarms, afterDisarm,
                   logOpen, exitCode>>

\* The steps main takes by itself
MainStep == LoopTest \/ Scan \/ Update \/ Check \/ Disarm \/ CloseLog \/ Return

MainNext == MainStep \/ interruptHandler

MainSpec == MainInit /\ [][MainNext]_vars

\* The loop under short timeouts, for the shutdown sequence
StopInit ==
    /\ KeyInit({DefaultOctave})
    /\ played = LoopKeys
    /\ watchDogTimer \in 1..MaxStopTimeout
    /\ MainStart("loop")
    /\ AuxIdle

\* The process is scheduled: a step main can take is eventually taken
StopSpec == StopInit /\ [][MainNext]_vars /\ WF_vars(MainStep)

\* ------------------------------------------------------------ the scan, pulse by pulse

\* The column changes with every call
ScanCol_RowOuter == scanAt % MATRIX_COLS

\* The loop of the scan calls pulseEntry(i, j) with i outermost: i is the column
ScanCol == scanAt \div MATRIX_ROWS

ScanRow == scanAt % MATRIX_ROWS

\* The column line is left as it is
Unpulse_Forgotten(lines, col) == lines

\* digitalWrite(outputPins[col], LOW)
Unpulse(lines, col) == [lines EXCEPT ![col] = 0]

\* One more activation of the line of column col
Drive(d, col) == [d EXCEPT ![col] = @ + 1]

\* pulseEntry: digitalWrite(outputPins[col], HIGH); the first call of a scan
\* starts the scan's counts afresh
PulseHigh ==
    /\ pc = "scan"
    /\ pulse.at = "idle"
    /\ outputs' = [outputs EXCEPT ![ScanCol] = 1]
    /\ pulse' = [pulse EXCEPT !.at = "high"]
    /\ driven' = Drive(IF scanAt = 0 THEN [c \in 0..(MATRIX_COLS - 1) |-> 0] ELSE driven,
                       ScanCol)
    /\ waits' = IF scanAt = 0 THEN 0 ELSE waits
    /\ UNCHANGED <<keyVars, callVars, mainVars, probe, parser, logFileLocation, gpio,
                   scanAt, old>>

\* pulseEntry: delay(3), then rowValue = digitalRead(inputPins[row]): 1 only for
\* a key that is pressed
PulseRead ==
    /\ pc = "scan"
    /\ pulse.at = "high"
    /\ \E v \in {0, 1} :
          /\ v = 1 => keys[ScanRow][ScanCol] \in played
          /\ pulse' = [at |-> "read", rowValue |-> v]
    /\ waits' = waits + 1
    /\ UNCHANGED <<keyVars, callVars, mainVars, probe, parser, logFileLocation, gpio,
                   outputs, scanAt, driven, old>>

\* pulseEntry: digitalWrite(outputPins[col], LOW) and return; the value goes to
\* snapshot[j][i]; after the last call the scan is over and timer += 48
PulseLow ==
    /\ pc = "scan"
    /\ pulse.at = "read"
    /\ outputs' = Unpulse(outputs, ScanCol)
    /\ snapshot' = [snapshot EXCEPT ![ScanRow][ScanCol] = pulse.rowValue]
    /\ pulse' = NoPulse
    /\ IF scanAt = MATRIX_ROWS * MATRIX_COLS - 1
       THEN /\ scanAt' = 0
            /\ timer' = timer + SCAN_MS
            /\ scans' = scans + 1
            /\ sincePulse' = sincePulse + 1
            /\ pc' = "update"
       ELSE /\ scanAt' = scanAt + 1
            /\ UNCHANGED <<timer, scans, sincePulse, pc>>
    /\ UNCHANGED <<keyVars, callVars, watchDogTimer, keepRunning, iterations, updates,
                   checks, pulseIters, disarms, afterDisarm, logOpen, exitCode, sigAt,
                   probe, parser, logFileLocation, gpio, driven, waits, old>>

ScanNext ==
    \/ LoopTest \/ PulseHigh \/ PulseRead \/ PulseLow \/ Update \/ Check
    \/ Disarm \/ CloseLog \/ Return \/ interruptHandler

\* The loop of main under short timeouts, its scan followed pulse by pulse
ScanSpec == StopInit /\ [][ScanNext]_vars

\* ------------------------------------------------------------ setValuesFromConfig

\* char buffer[255]: fgets stores at most 254 characters of a line at a time
BUFFER_SIZE == 255

DigitChars == <<"0", "1", "2", "3", "4", "5", "6", "7", "8", "9">>

\* buffer[i] >= '0' && buffer[i] <= '9'
IsDigit(c) == \E k \in 1..10 : DigitChars[k] = c

\* buffer[i] - '0'
DigitValue(c) == (CHOOSE k \in 1..10 : DigitChars[k] = c) - 1

\* The locals on entry: *octave = 0, *wdTimer = 0, value = 0, lastChar = 0; mode
\* is the loop the function is in, i the index into buffer, name what has been
\* written to logFileName, lines the calls of fgets that returned a line
ParserStart ==
    [mode |-> "fgets", octave |-> 0, wdTimer |-> 0, value |-> 0, lastChar |-> "",
     i |-> 0, name |-> <<>>, lines |-> 0]

\* The two inner loops that read a number: digits are added, the rest skipped
NumberChar(st, c) ==
    LET st1 == IF ~IsDigit(c) THEN st
               ELSE IF st.mode = "octave"
                    THEN [st EXCEPT !.octave = (@ * 10) + DigitValue(c)]
                    ELSE [st EXCEPT !.wdTimer = (@ * 10) + DigitValue(c)]
    IN  [st1 EXCEPT !.lastChar = c]

\* The inner loop that reads the log path: it ends at the newline, which the
\* outer loop then passes over; colons and spaces are left out of the path
NameChar(st, c) ==
    IF c = "\n"
    THEN [st EXCEPT !.value = @ + 1, !.mode = "scan", !.lastChar = c]
    ELSE IF c # ":" /\ c # " "
         THEN [st EXCEPT !.name = Append(@, c), !.lastChar = c]
         ELSE [st EXCEPT !.lastChar = c]

\* The outer loop over a line: a space after a colon starts the next value
ScanChar(st, c) ==
    IF c = " " /\ st.lastChar = ":" /\ st.value = 0
    THEN NumberChar([st EXCEPT !.mode = "octave"], c)
    ELSE IF c = " " /\ st.lastChar = ":" /\ st.value = 1
         THEN NumberChar([st EXCEPT !.mode = "timer"], c)
         ELSE IF c = " " /\ st.lastChar = ":" /\ st.value = 2
              THEN NameChar([st EXCEPT !.mode = "name", !.name = <<>>], c)
              ELSE [st EXCEPT !.lastChar = c]

\* buffer[i] == 0: the loops over the line end; an inner loop that ran to the
\* end of the line counts its value
EndLine(st) ==
    [st EXCEPT !.value = IF st.mode \in {"octave", "timer", "name"} THEN @ + 1 ELSE @,
               !.mode = "fgets",
               !.i = 0]

\* The next character c of the file is read and processed
ParseChar(st, c) ==
    LET st1 == IF st.mode = "fgets" THEN [st EXCEPT !.lines = @ + 1] ELSE st
        st2 == CASE st.mode = "fgets" ->
                       IF c = "#" THEN [st1 EXCEPT !.mode = "comment"]
                                  ELSE ScanChar([st1 EXCEPT !.mode = "scan"], c)
                 [] st.mode = "comment" -> st1
                 [] st.mode = "scan" -> ScanChar(st1, c)
                 [] st.mode \in {"octave", "timer"} -> NumberChar(st1, c)
                 [] OTHER -> NameChar(st1, c)
        st3 == [st2 EXCEPT !.i = @ + 1]
    IN  IF c = "\n" \/ st3.i >= BUFFER_SIZE - 1 THEN EndLine(st3) ELSE st3

\* fgets returns NULL: a last line without newline ends here
ParseEnd(st) == IF st.mode = "fgets" THEN st ELSE EndLine(st)

\* The octave is taken even when it is 0 (no value found)
OctaveOrDefault_KeepsZero(octave) == IF octave < 0 \/ octave > 4 THEN 4 ELSE octave

\* if (*octave < 1 || *octave > 4) *octave = 4
OctaveOrDefault(octave) == IF octave < 1 \/ octave > 4 THEN 4 ELSE octave

\* if (*wdTimer < 1 || *wdTimer > 15) *wdTimer = 10
TimerOrDefault(wdTimer) == IF wdTimer < 1 \/ wdTimer > 15 THEN 10 ELSE wdTimer

\* What main holds after setValuesFromConfig returned from the locals st: the
\* log path is written only when a third value was found
ConfigReturn(st) ==
    /\ currentOctave' = OctaveOrDefault(st.octave)
    /\ watchDogTimer' = TimerOrDefault(st.wdTimer)
    /\ logFileLocation' = IF st.value >= 3 THEN [kind |-> "config", name |-> st.name]
                                           ELSE logFileLocation
    /\ parser' = NoParser

RECURSIVE ParseFrom(_, _)
ParseFrom(st, file) ==
    IF file = <<>> THEN ParseEnd(st)
    ELSE CHOOSE r \in {ParseFrom(h, Tail(file)) : h \in {ParseChar(st, Head(file))}} : TRUE

\* The locals of setValuesFromConfig when it has read the whole of file
setValuesFromConfig(file) == ParseFrom(ParserStart, file)

\* ------------------------------------------------------------ start-up of main

\* char logFileLocation[100] is declared without an initialiser: what it holds
\* is what the stack held, which may or may not be the bytes of a path
Uninitialised == {NoLog, DefaultLog}

\* The process has just been started: globals as initialised, nothing opened
BootInit ==
    /\ KeyInit({DefaultOctave})
    /\ played = LoopKeys
    /\ watchDogTimer = 10
    /\ pc = "start"
    /\ snapshot = ZeroMatrix
    /\ timer = 0
    /\ keepRunning = 1
    /\ iterations = 0
    /\ scans = 0
    /\ updates = 0
    /\ checks = 0
    /\ pulseIters = <<>>
    /\ sincePulse = 0
    /\ disarms = 0
    /\ afterDisarm = 0
    /\ logOpen = FALSE
    /\ exitCode = -2
    /\ sigAt = -1
    /\ probe = NoProbe
    /\ parser = NoParser
    /\ logFileLocation \in Uninitialised
    /\ gpio = NoGpio
    /\ outputs = AllLow
    /\ ScanIdle
    /\ NoScanYet
    /\ old = NoOld

\* configFile = fopen("/home/pi/pi_ano.cfg", "r"): the file exists and
\* setValuesFromConfig is entered, or it does not: a new one is generated, the
\* globals keep their defaults and the log path is the default one
OpenConfig ==
    /\ pc = "start"
    /\ \E exists \in BOOLEAN :
          IF exists
          THEN /\ parser' = ParserStart
               /\ pc' = "config"
               /\ UNCHANGED logFileLocation
          ELSE /\ logFileLocation' = DefaultLog
               /\ pc' = "openlog"
               /\ UNCHANGED parser
    /\ UNCHANGED <<keyVars, callVars, snapshot, timer, watchDogTimer, keepRunning,
                   iterations, scans, updates, checks, pulseIters, sincePulse, disarms,
                   afterDisarm, logOpen, exitCode, sigAt, probe, gpio, outputs, scanAt,
                   pulse, driven, waits, old>>

\* setValuesFromConfig reads one more character of the file
ReadChar ==
    /\ pc = "config"
    /\ \E c \in ConfigChars :
          /\ parser.mode = "fgets" => parser.lines < MaxLines
          /\ parser.i >= MaxLineLen - 1 => c = "\n"
          /\ parser' = ParseChar(parser, c)
    /\ UNCHANGED <<keyVars, callVars, mainVars, probe, logFileLocation, gpio, outputs,
                   scanAt, pulse, driven, waits, old>>

\* The end of the file is reached: the two values are range-checked and
\* setValuesFromConfig returns
EndOfFile ==
    /\ pc = "config"
    /\ \E st \in {ParseEnd(parser)} : ConfigReturn(st)
    /\ pc' = "openlog"
    /\ UNCHANGED <<activeKeyMatrix, activeBuzzerMatrix, activeBuzzers, buzzerCount,
                   softTone, toneCalls, updatedMatrix, callVars, snapshot, timer,
                   keepRunning, iterations, scans, updates, checks, pulseIters,
                   sincePulse, disarms, afterDisarm, logOpen, exitCode, sigAt, probe,
                   gpio, outputs, scanAt, pulse, driven, waits, old>>

ConfigNext == OpenConfig \/ ReadChar \/ EndOfFile

\* The failure is not acted upon: main goes on to its loop
OpenFailed_Ignored == [pc |-> "loop", exitCode |-> -2]

\* return -1 where the log file or the watchdog device could not be opened
OpenFailed == [pc |-> "exited", exitCode |-> -1]

\* The configuration is loaded in one step: from one of the files, or the file
\* is missing
LoadConfig ==
    /\ pc = "start"
    /\ \E exists \in BOOLEAN :
          IF exists
          THEN \E file \in ConfigFiles : \E st \in {setValuesFromConfig(file)} :
                  ConfigReturn(st)
          ELSE /\ logFileLocation' = DefaultLog
               /\ UNCHANGED <<currentOctave, watchDogTimer, parser>>
    /\ pc' = "openlog"
    /\ UNCHANGED <<activeKeyMatrix, activeBuzzerMatrix, activeBuzzers, buzzerCount,
                   softTone, toneCalls, updatedMatrix, callVars, snapshot, timer,
                   keepRunning, iterations, scans, updates, checks, pulseIters,
                   sincePulse, disarms, afterDisarm, logOpen, exitCode, sigAt, probe,
                   gpio, outputs, scanAt, pulse, driven, waits, old>>

\* logFile = fopen(logFileLocation, "a"), which succeeds or not
OpenLog ==
    /\ pc = "openlog"
    /\ \E opened \in BOOLEAN :
          IF opened
          THEN logOpen' = TRUE /\ pc' = "gpio" /\ UNCHANGED exitCode
          ELSE pc' = OpenFailed.pc /\ exitCode' = OpenFailed.exitCode /\ UNCHANGED logOpen
    /\ UNCHANGED <<auxVars, keyVars, callVars, snapshot, timer, watchDogTimer, keepRunning,
                   iterations, scans, updates, checks, pulseIters, sincePulse, disarms,
                   afterDisarm, sigAt>>

\* wiringPiSetupGpio(), whose result is not looked at, then initPins(): the
\* matrix pins are configured, the column lines written low and a tone
\* generator is created on every buzzer pin
SetupGpio ==
    /\ pc = "gpio"
    /\ \E result \in {"ok", "failed"} :
          gpio' = [setup |-> result, pinsReady |-> TRUE,
                   tones |-> {buzzerPins[k] : k \in 0..(MAX_BUZZERS - 1)}]
    /\ outputs' = AllLow
    /\ pc' = "watchdog"
    /\ UNCHANGED <<keyVars, callVars, snapshot, timer, watchDogTimer, keepRunning,
                   iterations, scans, updates, checks, pulseIters, sincePulse, disarms,
                   afterDisarm, logOpen, exitCode, sigAt, probe, parser, logFileLocation,
                   scanAt, pulse, driven, waits, old>>

\* watchdog = open("/dev/watchdog", ...), which succeeds or not; then the
\* timeout is set (the device is taken to accept every timeout of 1..15 s) and
\* int timer = 0
OpenWatchdog ==
    /\ pc = "watchdog"
    /\ \E opened \in BOOLEAN :
          IF opened
          THEN pc' = "loop" /\ UNCHANGED exitCode
          ELSE pc' = OpenFailed.pc /\ exitCode' = OpenFailed.exitCode
    /\ timer' = 0
    /\ UNCHANGED <<auxVars, keyVars, callVars, snapshot, watchDogTimer, keepRunning,
                   iterations, scans, updates, checks, pulseIters, sincePulse, disarms,
                   afterDisarm, logOpen, sigAt>>

BootNext == LoadConfig \/ OpenLog \/ SetupGpio \/ OpenWatchdog \/ MainStep \/ interruptHandler

\* main from its start: start-up, the loop, the shutdown
BootSpec == BootInit /\ [][BootNext]_vars

\* main from its start to the opening of the log file, over every file content
ConfigSpec == BootInit /\ [][ConfigNext]_vars

\* ------------------------------------------------------------ keyToFreq alone

\* The keys updateKeys plays: keys[i][j] >= 2 && keys[i][j] <= 14
PianoKeys == 2..14

\* The octaves playFrequency accepts: octave > 0 && octave < 8
PlayableOctaves == 1..7

\* The arguments of the n-th call made for one key and octave: the pair itself,
\* the key an octave of keys higher, the octave above
ProbeArgs(n) ==
    CASE n = 1 -> <<probe.key, probe.octave>>
      [] n = 2 -> <<probe.key + 12, probe.octave>>
      [] OTHER -> <<probe.key, probe.octave + 1>>

FreqInit ==
    /\ KeyInit({DefaultOctave})
    /\ played = {}
    /\ watchDogTimer = 10
    /\ MainStart("freq")
    /\ probe \in [key : PianoKeys, octave : PlayableOctaves, out : {<<>>}]
    /\ parser = NoParser
    /\ logFileLocation = DefaultLog
    /\ gpio = GpioReady
    /\ outputs = AllLow
    /\ ScanIdle
    /\ NoScanYet
    /\ old = NoOld

\* keyToFreq(key, octave) is called and its result kept
CallKeyToFreq ==
    /\ pc = "freq"
    /\ Len(probe.out) < 3
    /\ \E a \in {ProbeArgs(Len(probe.out) + 1)} :
          probe' = [probe EXCEPT !.out = Append(@, keyToFreq(a[1], a[2]))]
    /\ UNCHANGED <<keyVars, callVars, mainVars, parser, logFileLocation, gpio, outputs,
                   scanAt, pulse, driven, waits, old>>

FreqSpec == FreqInit /\ [][CallKeyToFreq]_vars

\* ------------------------------------------------------------ pi_ano_old.c

maxActiveKeys == 4

totalKeys == 13

\* const int buzzerPins[4] of pi_ano_old.c
buzzerPins_old == [k \in 0..3 |-> <<2, 3, 4, 17>>[k + 1]]

\* struct Entry none: x = -1, y = -1
none == [x |-> -1, y |-> -1]

\* keyEntries[i]: x = i % 4, y the column, which advances every four keys
keyEntries == [i \in 0..(totalKeys - 1) |-> [x |-> i % 4, y |-> i \div 4]]

\* The globals of pi_ano_old.c when main enters its loop, with main's octave,
\* the frequency each pin was given last (0: stopped or never started) and the
\* tone-backend calls of the latest step
OldStart ==
    [phase |-> "keys", i |-> 0,
     activeKeys |-> [k \in 0..(maxActiveKeys - 1) |-> none],
     playing |-> [k \in 0..(maxActiveKeys - 1) |-> 0],
     currentActiveKeys |-> 0,
     octave |-> 4,
     tone |-> [pin \in {buzzerPins_old[k] : k \in 0..3} |-> 0],
     calls |-> <<>>]

entryIsEqual(entry1, entry2) == entry1.x = entry2.x /\ entry1.y = entry2.y

\* The first slot holding the entry, -1 if none
getActiveKeyIndex(o, entry) ==
    LET hits == {k \in 0..(maxActiveKeys - 1) : entryIsEqual(entry, o.activeKeys[k])}
    IN  IF hits = {} THEN -1 ELSE CHOOSE k \in hits : \A m \in hits : k <= m

\* if (currentActiveKeys < 4): count, then take the first slot with x == -1
setActiveKey(o, entry) ==
    IF o.currentActiveKeys < 4
    THEN LET o1 == [o EXCEPT !.currentActiveKeys = @ + 1]
             free == {k \in 0..(maxActiveKeys - 1) : o.activeKeys[k].x = -1}
         IN  IF free = {} THEN o1
             ELSE [o1 EXCEPT !.activeKeys[CHOOSE k \in free : \A m \in free : k <= m] = entry]
    ELSE o

setInactiveKey(o, entry) ==
    LET index == getActiveKeyIndex(o, entry)
    IN  IF index # -1
        THEN [o EXCEPT !.activeKeys[index] = none, !.currentActiveKeys = @ - 1]
        ELSE o

\* (int)((440 * pow(basis, key - 9)) * pow(2, octave - 4)): truncated
frequency_old(key, octave) ==
    LET trueOctave == octave - 4
        a4 == (440 * BasisPow[key - 9]) \div 10
    IN  (IF trueOctave >= 0 THEN a4 * Pow2(trueOctave) ELSE a4 \div Pow2(-trueOctave))
            \div 100000

\* The tone is started (softTone) only while currentActiveKeys < 4
playFrequency_old(o, key, octave, buzzerPin) ==
    IF octave > 0 /\ octave < 8
    THEN IF o.currentActiveKeys < 4
         THEN [o EXCEPT !.tone[buzzerPin] = frequency_old(key, octave),
                        !.calls = Append(@, [pin |-> buzzerPin,
                                             freq |-> frequency_old(key, octave)])]
         ELSE o
    ELSE o

\* softToneStop(buzzerPin)
clearFrequency_old(o, buzzerPin) ==
    [o EXCEPT !.tone[buzzerPin] = 0, !.calls = Append(@, [pin |-> buzzerPin, freq |-> 0])]

\* The first loop of main's loop body, for key i: isEntryActive reads the pins
\* of the entry; a key read as pressed that is in no slot is set active, a key
\* read as not pressed is set inactive
OldKeyStep ==
    /\ pc = "old"
    /\ old.phase = "keys"
    /\ \E isEntryActive \in BOOLEAN :
          /\ isEntryActive => old.i \in OldKeys
          /\ LET currentKeyEntry == keyEntries[old.i]
                 o == [old EXCEPT !.calls = <<>>]
                 o1 == IF isEntryActive
                       THEN IF getActiveKeyIndex(o, currentKeyEntry) = -1
                            THEN setActiveKey(o, currentKeyEntry)
                            ELSE o
                       ELSE setInactiveKey(o, currentKeyEntry)
             IN  old' = IF old.i = totalKeys - 1
                        THEN [o1 EXCEPT !.phase = "slots", !.i = 0]
                        ELSE [o1 EXCEPT !.i = @ + 1]
    /\ UNCHANGED <<keyVars, callVars, mainVars, probe, parser, logFileLocation, gpio,
                   outputs, scanAt, pulse, driven, waits>>

\* The second loop, for slot i: the key of an occupied slot that is not yet
\* playing is played and the slot marked playing; a free slot that is marked
\* playing is stopped
OldSlotStep ==
    /\ pc = "old"
    /\ old.phase = "slots"
    /\ LET i == old.i
           o == [old EXCEPT !.calls = <<>>]
           js == {j \in 0..(totalKeys - 1) : entryIsEqual(o.activeKeys[i], keyEntries[j])}
           o1 == IF o.activeKeys[i].x # -1
                 THEN IF js # {} /\ o.playing[i] = 0
                      THEN [playFrequency_old(o, CHOOSE j \in js : TRUE, o.octave,
                                              buzzerPins_old[i])
                               EXCEPT !.playing[i] = 1]
                      ELSE o
                 ELSE IF o.playing[i] # 0
                      THEN [clearFrequency_old(o, buzzerPins_old[i]) EXCEPT !.playing[i] = 0]
                      ELSE o
       IN  old' = IF i = maxActiveKeys - 1
                  THEN [o1 EXCEPT !.phase = "keys", !.i = 0]
                  ELSE [o1 EXCEPT !.i = @ + 1]
    /\ UNCHANGED <<keyVars, callVars, mainVars, probe, parser, logFileLocation, gpio,
                   outputs, scanAt, pulse, driven, waits>>

\* main of pi_ano_old.c at the head of its endless loop
OldInit ==
    /\ KeyInit({DefaultOctave})
    /\ played = {}
    /\ watchDogTimer = 10
    /\ MainStart("old")
    /\ probe = NoProbe
    /\ parser = NoParser
    /\ logFileLocation = DefaultLog
    /\ gpio = GpioReady
    /\ outputs = AllLow
    /\ ScanIdle
    /\ driven = [c \in 0..(MATRIX_COLS - 1) |-> 0]
    /\ waits = 0
    /\ old = OldStart

OldNext == OldKeyStep \/ OldSlotStep

\* The loop of pi_ano_old.c, one key or one slot at a time
OldSpec == OldInit /\ [][OldNext]_vars

\* ------------------------------------------------------------ vocabulary

Cells == 0..(MATRIX_ROWS * MATRIX_COLS - 1)

Slots == 0..(MAX_BUZZERS - 1)

BuzzerPinSet == {buzzerPins[k] : k \in Slots}

KeyAt(p) == keys[Row(p)][Col(p)]

Chromatic(p) == KeyAt(p) >= 2 /\ KeyAt(p) <= 14

Active(p) == activeKeyMatrix[Row(p)][Col(p)] = 1

BoundPin(p) == activeBuzzerMatrix[Row(p)][Col(p)]

\* Slots whose buzzer is free
FreeSlots == {k \in Slots : activeBuzzers[k] = 0}

\* The iteration of updateKeys' loop for the cell at pos is this step
CellStepTaken == pos < MATRIX_ROWS * MATRIX_COLS /\ pos' = pos + 1

\* The entry of the argument that this step read
ReadValue == updatedMatrix'[Row(pos)][Col(pos)]

PressEdge == CellStepTaken /\ ReadValue = 1 /\ ~Active(pos)

ReleaseEdge == CellStepTaken /\ ReadValue = 0 /\ Active(pos)

\* The cell about to be processed was pressed in the snapshot of the call before
HeldBefore == updatedMatrix[Row(pos)][Col(pos)] = 1

\* A press that the call before dropped is tried again: the key is still pressed
\* and its cell is still inactive
Retry == CellStepTaken /\ HeldBefore /\ ReadValue = 1 /\ ~Active(pos)

\* updateKeys has returned and the cell at p was pressed in its snapshot
Returned == pos = MATRIX_ROWS * MATRIX_COLS

Pressed(p) == updatedMatrix[Row(p)][Col(p)] = 1

\* ------------------------------------------------------------ claims

\* C1: over every sequence of snapshots fed to updateKeys the number of bound
\* voices never exceeds 4: buzzerCount, the slots in use in activeBuzzers, the
\* cells holding a pin in activeBuzzerMatrix and the pins sounding.
C1_PoolCapacity ==
    /\ buzzerCount <= 4
    /\ Cardinality({k \in Slots : activeBuzzers[k] # 0}) <= 4
    /\ Cardinality({p \in Cells : BoundPin(p) # 0}) <= 4
    /\ Cardinality({p \in Cells : Chromatic(p) /\ Active(p)}) <= 4

\* C1 witness: all four voices bound and a fifth chromatic key pressed and dropped
C1_Witness ==
    /\ Returned
    /\ buzzerCount = 4
    /\ \E p \in Cells : Chromatic(p) /\ Pressed(p) /\ ~Active(p)

\* C2: voice bindings are one-to-one: an active chromatic cell holds one of the
\* buzzer pins, no two active cells hold the same pin, and a pin in use in
\* activeBuzzers is held by exactly one active cell.
C2_OneToOne ==
    LET held == {p \in Cells : Chromatic(p) /\ Active(p)}
    IN  /\ \A p \in held :
              /\ BoundPin(p) \in BuzzerPinSet
              /\ Cardinality({k \in Slots : activeBuzzers[k] = BoundPin(p)}) = 1
        /\ \A p \in held : \A q \in held : p # q => BoundPin(p) # BoundPin(q)
        /\ \A k \in Slots : activeBuzzers[k] # 0 =>
              /\ activeBuzzers[k] = buzzerPins[k]
              /\ Cardinality({p \in held : BoundPin(p) = activeBuzzers[k]}) = 1

\* C2 witness: four voices bound, the pins not in the order of the cells (the key
\* of cell (3,2) took over pin 14 after an earlier key released it)
C2_Witness ==
    /\ buzzerCount = 4
    /\ activeBuzzerMatrix[3][2] = 14
    /\ activeBuzzerMatrix[0][3] = 15

\* C3 as stated: when updateKeys is called again with the same snapshot, no step
\* of the second call makes a tone-backend call or changes the octave.
C3_SecondCallSilent ==
    [][CellStepTaken /\ same => toneCalls' = <<>> /\ currentOctave' = currentOctave]_vars

\* C3 as amended: the second call never silences a pin, and it starts a tone or
\* changes the octave only at a cell that was pressed in the snapshot and that
\* the first call left inactive (a dropped press); when the first call left no
\* pressed key 0..14 inactive, the second call produces no event at all.
C3_SecondCallOnlyRetries ==
    [][CellStepTaken /\ same =>
          /\ \A n \in 1..Len(toneCalls') : toneCalls'[n].freq # 0
          /\ (toneCalls' # <<>> \/ currentOctave' # currentOctave)
                => (updatedMatrix[Row(pos)][Col(pos)] = 1 /\ ~Active(pos))
          /\ (\A p \in Cells : (Pressed(p) /\ KeyAt(p) <= 14) => Active(p))
                => (toneCalls' = <<>> /\ UNCHANGED <<activeKeyMatrix, activeBuzzerMatrix,
                                                      activeBuzzers, buzzerCount,
                                                      currentOctave, softTone>>)
      ]_vars

\* C3 witness: a step of a second call with the same snapshot has just started
\* a tone for a key whose press the first call had dropped
C3_Witness ==
    /\ same
    /\ pos > 0
    /\ Len(toneCalls) = 1
    /\ toneCalls[1].freq > 0
    /\ Pressed(pos - 1)
    /\ Active(pos - 1)

\* C4: the octave stays within 1..4; an octave-up press at 4 and an octave-down
\* press at 1 leave it unchanged, and every step moves it by at most one.
C4_OctaveSaturates ==
    /\ [](currentOctave \in 1..4)
    /\ [][/\ (PressEdge /\ KeyAt(pos) = 0 /\ currentOctave = 4) => currentOctave' = 4
          /\ (PressEdge /\ KeyAt(pos) = 1 /\ currentOctave = 1) => currentOctave' = 1
          /\ currentOctave' - currentOctave \in {-1, 0, 1}]_vars

\* C4 witness: at octave 1 an octave-down press has been dropped
C4_Witness ==
    /\ currentOctave = 1
    /\ pos > 1
    /\ Pressed(1)
    /\ ~Active(1)

\* C5: the release edge of a chromatic cell that holds a voice silences and frees
\* exactly the pin bound to that cell: one call, frequency 0, on that pin; only
\* that pin's slot is cleared and only that pin falls silent; the number of free
\* voices rises by exactly one. No release lowers the number of free voices, and
\* a cell's binding is changed by no step but that cell's own.
C5_ReleaseFreesBoundPin ==
    [][/\ (ReleaseEdge /\ Chromatic(pos)) =>
             LET pin == BoundPin(pos)
             IN  /\ pin \in BuzzerPinSet
                 /\ toneCalls' = <<[pin |-> pin, freq |-> 0]>>
                 /\ activeBuzzers' =
                       [k \in Slots |-> IF buzzerPins[k] = pin THEN 0 ELSE activeBuzzers[k]]
                 /\ softTone' = [softTone EXCEPT ![pin] = 0]
                 /\ Cardinality(FreeSlots') = Cardinality(FreeSlots) + 1
                 /\ buzzerCount' = buzzerCount - 1
       /\ ReleaseEdge => Cardinality(FreeSlots') >= Cardinality(FreeSlots)
       /\ CellStepTaken =>
             \A q \in Cells : q # pos =>
                activeBuzzerMatrix'[Row(q)][Col(q)] = activeBuzzerMatrix[Row(q)][Col(q)]
      ]_vars

\* C5 witness: the key of cell (0,3), bound to pin 15, has just been released
\* while the key on pin 14 keeps sounding
C5_Witness ==
    /\ pos = 4
    /\ toneCalls = <<[pin |-> 15, freq |-> 0]>>
    /\ activeBuzzers[0] = 14
    /\ activeBuzzers[1] = 0
    /\ softTone[14] # 0

\* C6: a press edge on a chromatic cell while a voice is free makes exactly one
\* tone-start call, on the lowest-index free pin of buzzerPins, with frequency
\* keyToFreq(key, current octave), and marks the cell active and bound to that
\* pin; the release edge of that cell makes exactly one call, frequency 0, on the
\* pin bound to the cell, and the pin's slot is free again.
C6_PressStartsReleaseStops ==
    [][/\ (PressEdge /\ Chromatic(pos) /\ FreeSlots # {}) =>
             LET k == CHOOSE k \in FreeSlots : \A m \in FreeSlots : k <= m
                 pin == buzzerPins[k]
             IN  /\ toneCalls' = <<[pin |-> pin,
                                    freq |-> keyToFreq(KeyAt(pos), currentOctave)]>>
                 /\ toneCalls'[1].freq > 0
                 /\ activeKeyMatrix'[Row(pos)][Col(pos)] = 1
                 /\ activeBuzzerMatrix'[Row(pos)][Col(pos)] = pin
                 /\ activeBuzzers'[k] = pin
                 /\ softTone'[pin] = toneCalls'[1].freq
       /\ (ReleaseEdge /\ Chromatic(pos)) =>
             /\ Len(toneCalls') = 1
             /\ toneCalls'[1] = [pin |-> BoundPin(pos), freq |-> 0]
             /\ \E k \in Slots : buzzerPins[k] = BoundPin(pos) /\ k \in FreeSlots'
             /\ activeKeyMatrix'[Row(pos)][Col(pos)] = 0
      ]_vars

\* C6 witness: with pin 14 in use, the key of cell (0,3) (key 3, C#4 = 277 Hz at
\* octave 4) has just started on pin 15
C6_Witness ==
    /\ pos = 4
    /\ toneCalls = <<[pin |-> 15, freq |-> 277]>>
    /\ activeBuzzerMatrix[0][3] = 15
    /\ activeBuzzers[0] = 14

\* C7: with all four voices bound, the press edge of a further chromatic cell is a
\* no-op: no tone-backend call, the cell is not marked active, and activeBuzzers,
\* activeBuzzerMatrix, buzzerCount and the octave are unchanged by that step.
C7_ExhaustedPressIsNoOp ==
    [][(PressEdge /\ Chromatic(pos) /\ FreeSlots = {}) =>
          /\ toneCalls' = <<>>
          /\ activeKeyMatrix'[Row(pos)][Col(pos)] = 0
          /\ UNCHANGED <<activeKeyMatrix, activeBuzzers, activeBuzzerMatrix,
                         buzzerCount, currentOctave, softTone>>
      ]_vars

\* C7 witness: the step just taken read a pressed chromatic key with all four
\* pins in use, and left it inactive
C7_Witness ==
    /\ pos > 0
    /\ FreeSlots = {}
    /\ Chromatic(pos - 1)
    /\ Pressed(pos - 1)
    /\ ~Active(pos - 1)
    /\ toneCalls = <<>>

\* C8: the keepalive is issued in exactly the loop iterations whose check finds
\* the accumulator (48 ms per scan since the last keepalive) at or above half the
\* timeout in ms, and the accumulator is then reset to 0; with a timeout of 10 s
\* the first keepalive is issued in iteration 105 and in none before.
C8_HeartbeatThreshold ==
    /\ [](timer = 48 * sincePulse)
    /\ [][(pc = "check" /\ pc' = "loop") =>
             LET reached == 2 * timer >= watchDogTimer * 1000
             IN  /\ reached => /\ pulseIters' = Append(pulseIters, iterations)
                               /\ timer' = 0
                 /\ ~reached => /\ pulseIters' = pulseIters
                                /\ timer' = timer]_vars
    /\ [][pulseIters' # pulseIters => pc = "check"]_vars
    /\ [](watchDogTimer = 10 =>
             /\ pulseIters # <<>> => pulseIters[1] = 105
             /\ checks >= 105 => pulseIters # <<>>)

\* C8 witness: timeout 10 s, the first keepalive has just been sent in iteration 105
C8_Witness ==
    /\ watchDogTimer = 10
    /\ pulseIters = <<105>>
    /\ checks = 105
    /\ timer = 0

\* C9: the threshold check runs exactly once in every loop iteration whatever
\* the snapshot holds, and for every timeout of 1..15 s the cycle time
\* accumulated since start-up or since the last keepalive stays strictly below
\* the full timeout.
C9_NeverStarved ==
    /\ watchDogTimer \in 1..15
    /\ 48 * sincePulse < watchDogTimer * 1000
    /\ checks <= iterations
    /\ iterations <= checks + 1
    /\ pc = "loop" => (scans = iterations /\ updates = iterations /\ checks = iterations)
    /\ pc = "check" => (scans = iterations /\ updates = iterations /\ checks = iterations - 1)

\* C9 witness: timeout 15 s, two keepalives sent, the last iteration's snapshot
\* held a pressed key that started a tone
C9_Witness ==
    /\ watchDogTimer = 15
    /\ Len(pulseIters) = 2
    /\ pc = "loop"
    /\ updatedMatrix[0][2] = 1
    /\ toneCalls # <<>>

\* C10: once SIGINT has arrived during the loop no further iteration starts, the
\* iteration in progress completes its scan, update and watchdog check before the
\* loop is left, the watchdog gets the disarm write exactly once and no keepalive
\* after it, the log is closed, and main eventually returns 0.
C10_OrderlyShutdown ==
    /\ [](sigAt # -1 => iterations = sigAt)
    /\ [](pc \in {"disarm", "close", "return", "exited"} =>
             /\ sigAt # -1
             /\ scans = iterations
             /\ updates = iterations
             /\ checks = iterations)
    /\ [](disarms <= 1 /\ afterDisarm = 0)
    /\ [](pc \in {"close", "return", "exited"} => disarms = 1)
    /\ [](pc \in {"return", "exited"} => ~logOpen)
    /\ [](IF pc = "exited" THEN exitCode = 0 ELSE exitCode = -2)
    /\ (sigAt # -1) ~> (pc = "exited" /\ exitCode = 0)

\* C10 witness: main has returned 0 after a SIGINT that arrived in the middle of
\* the third iteration
C10_Witness ==
    /\ pc = "exited"
    /\ exitCode = 0
    /\ sigAt = 3
    /\ checks = 3
    /\ disarms = 1
    /\ ~logOpen

\* C13: keyToFreq of the reference key 11 at the reference octave 4 is 440 (and 880
\* a twelve keys higher or an octave higher); for every key 2..14 and every octave
\* 1..7, keyToFreq(key + 12, octave) and keyToFreq(key, octave + 1) are both within
\* 1 Hz of 2 * keyToFreq(key, octave); the result is rounded half up, not
\* truncated: middle C (key 2, octave 4, 261.63 Hz) gives 262 and its octave
\* (523.25 Hz) gives 523.
C13_ReferenceAndDoubling ==
    LET out == probe.out
        Near(a, b) == a - b \in {-1, 0, 1}
    IN  /\ (Len(out) >= 1 /\ probe.key = 11 /\ probe.octave = 4) => out[1] = 440
        /\ (Len(out) >= 2 /\ probe.key = 11 /\ probe.octave = 4) => out[2] = 880
        /\ (Len(out) >= 3 /\ probe.key = 11 /\ probe.octave = 4) => out[3] = 880
        /\ Len(out) >= 2 => Near(out[2], 2 * out[1])
        /\ Len(out) >= 3 => Near(out[3], 2 * out[1])
        /\ (Len(out) >= 1 /\ probe.key = 2 /\ probe.octave = 4) => out[1] = 262
        /\ (Len(out) >= 2 /\ probe.key = 2 /\ probe.octave = 4) => out[2] = 523

\* C13 witness: the three calls for a key and octave where doubling is off by
\* one (rounded separately, the octave is not exactly twice the note)
C13_Witness ==
    /\ Len(probe.out) = 3
    /\ probe.out[2] # 2 * probe.out[1]
    /\ probe.out[3] = probe.out[2]

\* C14 as stated: a press edge on the cell of key 0 lowers the octave by one when
\* it is above the minimum, and a press edge on the cell of key 1 raises it by
\* one when it is below the maximum.
C14_Key0LowersKey1Raises ==
    [][/\ (PressEdge /\ KeyAt(pos) = 0 /\ currentOctave > 1) =>
             currentOctave' = currentOctave - 1
       /\ (PressEdge /\ KeyAt(pos) = 1 /\ currentOctave < 4) =>
             currentOctave' = currentOctave + 1
      ]_vars

\* C14 as amended: a press edge on the cell of key 0 raises the octave by one when
\* it is below the maximum, and a press edge on the cell of key 1 lowers it by
\* one when it is above the minimum; the cell is then marked active.
C14_Key0RaisesKey1Lowers ==
    [][/\ (PressEdge /\ KeyAt(pos) = 0 /\ currentOctave < 4) =>
             /\ currentOctave' = currentOctave + 1
             /\ activeKeyMatrix'[Row(pos)][Col(pos)] = 1
       /\ (PressEdge /\ KeyAt(pos) = 1 /\ currentOctave > 1) =>
             /\ currentOctave' = currentOctave - 1
             /\ activeKeyMatrix'[Row(pos)][Col(pos)] = 1
      ]_vars

\* C14 witness: both octave keys are down and both presses took effect, key 0
\* first (cell (0,0)) and key 1 after it (cell (0,1)), in one call
C14_Witness ==
    /\ pos = 2
    /\ ~same
    /\ Active(0)
    /\ Active(1)
    /\ Pressed(0)
    /\ Pressed(1)
    /\ currentOctave = 2

\* C15 as stated: when updateKeys has processed all cells, activeKeyMatrix equals
\* the snapshot in every cell.
C15_RetainedEqualsSnapshot ==
    Returned => \A p \in Cells : Active(p) <=> Pressed(p)

\* C15 as amended: when updateKeys has processed all cells, every cell that is not
\* pressed in the snapshot is inactive, and a pressed cell is active exactly when
\* it was active before or its press took effect when the cell was processed (a
\* chromatic key with a voice free, key 0 below octave 4, key 1 above octave 1);
\* a pressed cell whose press was dropped, and the unused key 15, stay inactive.
\* No step changes the mark of another cell than the one it processes.
C15_RetainedIsPressedAndTaken ==
    /\ [](Returned => \A p \in Cells : Active(p) => Pressed(p))
    /\ [][CellStepTaken =>
             /\ activeKeyMatrix'[Row(pos)][Col(pos)] =
                   IF /\ ReadValue = 1
                      /\ \/ Active(pos)
                         \/ Chromatic(pos) /\ buzzerCount < 4
                         \/ KeyAt(pos) = 0 /\ currentOctave < 4
                         \/ KeyAt(pos) = 1 /\ currentOctave > 1
                   THEN 1 ELSE 0
             /\ \A q \in Cells : q # pos =>
                   activeKeyMatrix'[Row(q)][Col(q)] = activeKeyMatrix[Row(q)][Col(q)]
      ]_vars

\* C15 witness: updateKeys has returned; four keys sound and a fifth chromatic key
\* that is pressed in the snapshot is not marked
C15_Witness ==
    /\ Returned
    /\ Cardinality({p \in Cells : Active(p)}) = 4
    /\ Cardinality({p \in Cells : Pressed(p)}) = 5
    /\ \A p \in Cells : Pressed(p) => Chromatic(p)

\* C16: a dropped press is tried again. A press that finds the pool exhausted, or
\* the octave at its bound, leaves the cell inactive, and no step of another cell
\* changes that; when the cell is processed again with the key still pressed, it
\* takes its action exactly if a voice is free (the octave off the bound) at that
\* step: a chromatic key starts one tone and binds a voice, key 0 raises and
\* key 1 lowers the octave; otherwise it stays inactive for the next call.
C16_DroppedPressRetried ==
    [][/\ (PressEdge /\ (\/ (Chromatic(pos) /\ buzzerCount >= 4)
                       \/ (KeyAt(pos) = 0 /\ currentOctave >= 4)
                       \/ (KeyAt(pos) = 1 /\ currentOctave <= 1))) =>
             activeKeyMatrix'[Row(pos)][Col(pos)] = 0
       /\ CellStepTaken =>
             \A q \in Cells : (q # pos /\ ~Active(q)) => activeKeyMatrix'[Row(q)][Col(q)] = 0
       /\ (Retry /\ Chromatic(pos)) =>
             IF buzzerCount < 4
             THEN /\ activeKeyMatrix'[Row(pos)][Col(pos)] = 1
                  /\ buzzerCount' = buzzerCount + 1
                  /\ Len(toneCalls') = 1
                  /\ toneCalls'[1].freq = keyToFreq(KeyAt(pos), currentOctave)
                  /\ toneCalls'[1].pin = activeBuzzerMatrix'[Row(pos)][Col(pos)]
             ELSE /\ activeKeyMatrix'[Row(pos)][Col(pos)] = 0
                  /\ toneCalls' = <<>>
                  /\ buzzerCount' = buzzerCount
       /\ (Retry /\ KeyAt(pos) = 0) =>
             IF currentOctave < 4
             THEN activeKeyMatrix'[Row(pos)][Col(pos)] = 1 /\ currentOctave' = currentOctave + 1
             ELSE activeKeyMatrix'[Row(pos)][Col(pos)] = 0 /\ currentOctave' = currentOctave
       /\ (Retry /\ KeyAt(pos) = 1) =>
             IF currentOctave > 1
             THEN activeKeyMatrix'[Row(pos)][Col(pos)] = 1 /\ currentOctave' = currentOctave - 1
             ELSE activeKeyMatrix'[Row(pos)][Col(pos)] = 0 /\ currentOctave' = currentOctave
      ]_vars

\* C16 witness: key 2 (cell (0,2)), dropped by the call before with all four voices
\* bound and still pressed in a new snapshot, has just started a tone on the voice
\* that the release of key 3 (cell (0,3)) had freed later in the call before
C16_Witness ==
    /\ ~same
    /\ retried
    /\ pos = 3
    /\ Active(2)
    /\ Pressed(2)
    /\ ~Pressed(3)
    /\ buzzerCount = 4
    /\ Len(toneCalls) = 1
    /\ toneCalls[1].freq > 0
    /\ toneCalls[1].pin = BoundPin(2)

\* C17 as stated: a chromatic cell whose press was dropped with the pool exhausted
\* does not become active while the key stays held, and the release of that key
\* makes no tone-backend call and leaves the voice pool as it is.
C17_DroppedNeverActive ==
    [][/\ (Retry /\ Chromatic(pos)) => activeKeyMatrix'[Row(pos)][Col(pos)] = 0
       /\ (CellStepTaken /\ HeldBefore /\ ~Active(pos) /\ Chromatic(pos) /\ ReadValue = 0) =>
             /\ toneCalls' = <<>>
             /\ UNCHANGED <<activeBuzzers, activeBuzzerMatrix, buzzerCount>>
      ]_vars

\* C17 as amended: a chromatic press that finds the pool exhausted, the first time
\* or when it is tried again, leaves the cell inactive (no call, no change of the
\* pool at those steps), so the cell stays inactive for as long as no voice is
\* free when it is processed; if the key is released while its cell is still
\* inactive, the release makes no tone-backend call and changes neither the
\* voice pool nor any mark.
C17_DroppedInactiveUntilVoiceFree ==
    [][/\ (PressEdge /\ Chromatic(pos) /\ buzzerCount >= 4) =>
             /\ activeKeyMatrix'[Row(pos)][Col(pos)] = 0
             /\ toneCalls' = <<>>
             /\ UNCHANGED <<activeKeyMatrix, activeBuzzers, activeBuzzerMatrix,
                            buzzerCount, softTone>>
       /\ (CellStepTaken /\ HeldBefore /\ ~Active(pos) /\ Chromatic(pos) /\ ReadValue = 0) =>
             /\ toneCalls' = <<>>
             /\ UNCHANGED <<activeKeyMatrix, activeBuzzers, activeBuzzerMatrix,
                            buzzerCount, softTone>>
      ]_vars

\* C17 witness: key 2 (cell (0,2)) was pressed and dropped in the call before with
\* four other keys sounding; its release has just been processed, silently
C17_Witness ==
    /\ retried
    /\ pos = 3
    /\ ~Pressed(2)
    /\ ~Active(2)
    /\ buzzerCount = 4
    /\ toneCalls = <<>>

\* C18: voices are granted in the order the cells are processed, row by row and
\* column by column inside a row. A chromatic press edge binds a voice exactly
\* if one is free when its cell is reached; once a press has been dropped in a
\* call, no later cell of that call binds a voice unless a release processed in
\* between has freed one; and the number of free voices falls by one with every
\* press that binds and rises only at a release.
C18_RowMajorGrant ==
    [][/\ CellStepTaken => pos' = pos + 1 /\ pos = MATRIX_COLS * Row(pos) + Col(pos)
       /\ (PressEdge /\ Chromatic(pos)) =>
             /\ activeKeyMatrix'[Row(pos)][Col(pos)] = (IF FreeSlots # {} THEN 1 ELSE 0)
             /\ Cardinality(FreeSlots') =
                   Cardinality(FreeSlots) - (IF FreeSlots # {} THEN 1 ELSE 0)
       /\ (PressEdge /\ Chromatic(pos) /\ starved) =>
             /\ activeKeyMatrix'[Row(pos)][Col(pos)] = 0
             /\ toneCalls' = <<>>
       /\ Cardinality(FreeSlots') > Cardinality(FreeSlots) => (ReleaseEdge /\ Chromatic(pos))
      ]_vars

\* C18 witness: six chromatic keys are pressed with the pool empty; the first four
\* in row-major order (keys 2, 3, 7, 8) hold the four pins in pin order and the
\* two after them (keys 13 and 14, cells (3,1) and (3,2)) were dropped in this call
C18_Witness ==
    /\ Returned
    /\ starved
    /\ BoundPin(2) = 14
    /\ BoundPin(3) = 15
    /\ BoundPin(7) = 18
    /\ BoundPin(8) = 23
    /\ Pressed(13)
    /\ ~Active(13)
    /\ Pressed(14)
    /\ ~Active(14)

\* C19: one hold of an octave key moves the octave by at most one step. The octave
\* changes only at the press edge of an octave key, by one, and that step marks
\* the cell active; while the cell is active and the key still pressed, its
\* iteration changes nothing; the mark is cleared only by the cell's own release
\* edge, which changes neither the octave nor the voice pool and makes no call.
C19_OneStepPerHold ==
    [][/\ currentOctave' # currentOctave =>
             /\ PressEdge
             /\ KeyAt(pos) \in {0, 1}
             /\ currentOctave' - currentOctave \in {-1, 1}
             /\ activeKeyMatrix'[Row(pos)][Col(pos)] = 1
       /\ (CellStepTaken /\ KeyAt(pos) \in {0, 1} /\ Active(pos) /\ ReadValue = 1) =>
             /\ toneCalls' = <<>>
             /\ UNCHANGED <<activeKeyMatrix, activeBuzzerMatrix, activeBuzzers,
                            buzzerCount, currentOctave, softTone>>
       /\ \A q \in {p \in Cells : KeyAt(p) \in {0, 1}} :
             (Active(q) /\ activeKeyMatrix'[Row(q)][Col(q)] = 0) =>
                (CellStepTaken /\ pos = q /\ ReadValue = 0)
       /\ (ReleaseEdge /\ KeyAt(pos) \in {0, 1}) =>
             /\ activeKeyMatrix' = [activeKeyMatrix EXCEPT ![Row(pos)][Col(pos)] = 0]
             /\ toneCalls' = <<>>
             /\ UNCHANGED <<activeBuzzerMatrix, activeBuzzers, buzzerCount,
                            currentOctave, softTone>>
      ]_vars

\* C19 witness: key 0 raised the octave from 1 to 2 and is still held: in a call
\* with the same snapshot its cell, already active, has just been processed again
\* and the octave is still 2 (key 1 is not pressed)
C19_Witness ==
    /\ same
    /\ ~retried
    /\ pos = 1
    /\ Pressed(0)
    /\ Active(0)
    /\ ~Pressed(1)
    /\ ~Active(1)
    /\ currentOctave = 2

\* C11: when the log file or the watchdog device cannot be opened main returns a
\* non-zero code at once: the step from the opening of either leads to the next
\* start-up step or to the exit with code -1; the loop is only ever entered with
\* the log open and the pins initialised; and a process that has exited with a
\* non-zero code has started no iteration, made no scan, no updateKeys call, no
\* softToneWrite call, no watchdog check, no keepalive and no disarm write.
C11_OpenFailureIsFatal ==
    /\ [][/\ (pc = "openlog" /\ pc' # pc) =>
                 \/ pc' = "gpio" /\ logOpen' /\ exitCode' = -2
                 \/ pc' = "exited" /\ ~logOpen' /\ exitCode' = -1
          /\ (pc = "watchdog" /\ pc' # pc) =>
                 \/ pc' = "loop" /\ exitCode' = -2
                 \/ pc' = "exited" /\ exitCode' = -1
          /\ (pc' = "loop" /\ pc \notin {"loop", "check"}) => pc = "watchdog"
         ]_vars
    /\ [](pc \in {"loop", "scan", "update", "check"} => logOpen /\ gpio.pinsReady)
    /\ []((pc = "exited" /\ exitCode # 0) =>
             /\ exitCode = -1
             /\ iterations = 0
             /\ scans = 0
             /\ updates = 0
             /\ checks = 0
             /\ pulseIters = <<>>
             /\ disarms = 0
             /\ toneCalls = <<>>
             /\ \A p \in TonePins : softTone[p] = 0)
    /\ [](iterations > 0 => exitCode \in {-2, 0})

\* C11 witness: the log was opened and the pins initialised, then the watchdog
\* device could not be opened: main has returned -1
C11_Witness ==
    /\ pc = "exited"
    /\ exitCode = -1
    /\ logOpen
    /\ gpio.pinsReady
    /\ iterations = 0

C20_OneColumnHigh ==
    /\ [](Cardinality({c \in 0..(MATRIX_COLS - 1) : outputs[c] = 1}) <= 1)
    /\ [](pulse.at = "idle" => outputs = AllLow)
    /\ [](pulse.at # "idle" => (pc = "scan" /\ outputs = [AllLow EXCEPT ![ScanCol] = 1]))
    /\ [](pc # "scan" => (outputs = AllLow /\ ScanIdle))
    /\ [][(pc = "scan" /\ keepRunning' # keepRunning) =>
             (pc' = "scan" /\ UNCHANGED <<outputs, scanAt, pulse, driven, waits>>)]_vars
    /\ [][(pc' = "disarm" /\ pc # "disarm") => (pc = "loop" /\ keepRunning = 0)]_vars
    /\ [](pc \in {"disarm", "close", "return", "exited"} => outputs = AllLow)

\* C20 witness: SIGINT has arrived while the line of column 2 is high and the
\* pressed key 2 (row 0) has just been read
C20_Witness ==
    /\ pc = "scan"
    /\ keepRunning = 0
    /\ scanAt = 8
    /\ pulse = [at |-> "read", rowValue |-> 1]
    /\ outputs[2] = 1

\* The pulseEntry calls the current scan has begun
CallsBegun == scanAt + (IF pulse.at = "idle" THEN 0 ELSE 1)

\* The activations column c has had once n calls have begun, column by column
DrivenAfter(n, c) ==
    IF n <= MATRIX_ROWS * c THEN 0
    ELSE IF n >= MATRIX_ROWS * (c + 1) THEN MATRIX_ROWS
    ELSE n - MATRIX_ROWS * c

\* A scan has been completed and no other has begun
ScanDone == scans >= 1 /\ ~(pc = "scan" /\ CallsBegun > 0)

\* C21 as stated: a completed scan has driven each column once and waited 4 times
C21_OneActivationPerColumn ==
    ScanDone => /\ \A c \in 0..(MATRIX_COLS - 1) : driven[c] = 1
                /\ waits = MATRIX_COLS

\* C21 amended: in one scan each column's line is driven active once per row,
\* four times: each call of pulseEntry activates the column, waits, reads one
\* row into snapshot[row][c] and deactivates the column, the four calls of a
\* column before the first of the next (16 activations and 16 settle waits per
\* scan), and each read is preceded by its own wait.
C21_OneActivationPerRead ==
    /\ [](ScanDone => /\ \A c \in 0..(MATRIX_COLS - 1) : driven[c] = MATRIX_ROWS
                       /\ waits = MATRIX_ROWS * MATRIX_COLS)
    /\ []((pc = "scan" /\ CallsBegun > 0) =>
            /\ \A c \in 0..(MATRIX_COLS - 1) : driven[c] = DrivenAfter(CallsBegun, c)
            /\ waits = scanAt + (IF pulse.at = "read" THEN 1 ELSE 0))
    /\ [][snapshot' # snapshot =>
             /\ pulse.at = "read" /\ outputs[ScanCol] = 1 /\ outputs'[ScanCol] = 0
             /\ snapshot' = [snapshot EXCEPT ![ScanRow][ScanCol] = pulse.rowValue]]_vars

\* C21 witness: a scan that read key 2 as pressed (row 0 of column 2) is over,
\* and its columns are all low again
C21_Witness ==
    /\ pc = "update"
    /\ scans = 1
    /\ snapshot[0][2] = 1
    /\ waits = MATRIX_ROWS * MATRIX_COLS
    /\ outputs = AllLow

\* C22 as stated: when wiringPiSetupGpio fails the process exits at once with a
\* non-zero code: no pin is configured, no tone generator is created and the
\* loop is never entered.
C22_GpioFailureIsFatal ==
    gpio.setup = "failed" =>
        /\ pc = "exited"
        /\ exitCode \notin {-2, 0}
        /\ ~gpio.pinsReady
        /\ gpio.tones = {}
        /\ iterations = 0

\* C22, what main does: the result of wiringPiSetupGpio is not looked at, so
\* after a failed set-up initPins has configured the pins and created the four
\* tone generators all the same, and main goes on to open the watchdog device.
C22_GpioResultIgnored ==
    /\ [][(pc = "gpio" /\ pc' # pc) =>
             /\ pc' = "watchdog"
             /\ exitCode' = -2
             /\ gpio'.pinsReady
             /\ gpio'.tones = {buzzerPins[k] : k \in 0..(MAX_BUZZERS - 1)}]_vars
    /\ [](gpio.setup = "failed" => gpio.pinsReady)

\* C22 witness: the set-up of the GPIO subsystem failed and the loop of main
\* has scanned the matrix and called updateKeys
C22_Witness ==
    /\ gpio.setup = "failed"
    /\ iterations >= 1
    /\ updates >= 1
    /\ pc = "check"

\* C23 as stated: the path handed to the opening of the log file is always a
\* defined one, and it is the default path when the configuration file is
\* missing or holds no third value.
C23_LogPathWellDefined ==
    /\ [](pc = "openlog" => logFileLocation # NoLog)
    /\ [][(pc = "start" /\ pc' = "openlog") => logFileLocation' = DefaultLog]_vars
    /\ [][(pc = "config" /\ pc' = "openlog") =>
             LET found == parser.value + (IF parser.mode = "name" THEN 1 ELSE 0)
             IN  found < 3 => logFileLocation' = DefaultLog]_vars

\* C23, what main does: a missing file gives the default path and a file with a
\* third value gives that value (its characters up to the end of the line,
\* spaces and colons left out); a file without a third value leaves the array
\* as it was declared, uninitialised, and that is what the log is opened with.
C23_LogPathOnlyFromThirdValue ==
    /\ [](pc \in {"start", "config"} => logFileLocation \in Uninitialised)
    /\ [][(pc = "start" /\ pc' = "openlog") => logFileLocation' = DefaultLog]_vars
    /\ [][(pc = "config" /\ pc' = "openlog") =>
             LET found == parser.value + (IF parser.mode = "name" THEN 1 ELSE 0)
             IN  /\ found < 3 => logFileLocation' = logFileLocation
                 /\ found >= 3 =>
                        /\ logFileLocation'.kind = "config"
                        /\ \A k \in 1..Len(logFileLocation'.name) :
                              logFileLocation'.name[k] \notin {":", " ", "\n"}]_vars

\* C23 witness: the file held an octave of 1 and a timeout of 11 and no third
\* value; the log is about to be opened with the uninitialised array
C23_Witness ==
    /\ pc = "openlog"
    /\ currentOctave = 1
    /\ watchDogTimer = 11
    /\ logFileLocation = NoLog

\* A step of updateKeys binds a voice to the cell it processes
Binds ==
    CellStepTaken /\ Chromatic(pos) /\ ~Active(pos) /\ activeKeyMatrix'[Row(pos)][Col(pos)] = 1

\* The pin the step leaves bound to the cell it processes
PinBound == activeBuzzerMatrix'[Row(pos)][Col(pos)]

\* C24: every voice acquisition sounds: when a step of updateKeys binds a pin to
\* a chromatic cell, the octave is in 1..7 and buzzerCount below 4 at the call of
\* playFrequency, and the step makes exactly one tone-start call, on the pin it
\* binds; so the pin of every active chromatic cell is sounding, and with four
\* voices bound four distinct pins are sounding.
C24_EveryAcquisitionSounds ==
    /\ [][Binds =>
             /\ currentOctave > 0 /\ currentOctave < 8
             /\ buzzerCount < 4
             /\ Len(toneCalls') = 1
             /\ toneCalls'[1].pin = PinBound
             /\ toneCalls'[1].pin \in BuzzerPinSet
             /\ toneCalls'[1].freq = keyToFreq(KeyAt(pos), currentOctave)
             /\ toneCalls'[1].freq > 0
             /\ softTone'[PinBound] > 0]_vars
    /\ [](\A p \in Cells : (Chromatic(p) /\ Active(p)) => softTone[BoundPin(p)] > 0)
    /\ [](buzzerCount = 4 =>
             Cardinality({pin \in BuzzerPinSet : softTone[pin] > 0}) = 4)

\* C24 witness: keys 2, 3, 7 and 8 hold the four pins in the order of their
\* cells, and the fourth tone has just been started on pin 23
C24_Witness ==
    /\ pos = 9
    /\ activeBuzzerMatrix[0][2] = 14
    /\ activeBuzzerMatrix[0][3] = 15
    /\ activeBuzzerMatrix[1][3] = 18
    /\ activeBuzzerMatrix[2][0] = 23
    /\ Len(toneCalls) = 1
    /\ toneCalls[1].pin = 23
    /\ \A pin \in BuzzerPinSet : softTone[pin] > 0

\* C25: the octave is changed only by the step that processes a press edge of
\* an octave key (cells 0 and 1): steps for chromatic cells, for the unused cell
\* 15 and for release edges of any cell leave it unchanged; and a step that
\* changes the octave makes no tone-backend call and changes no voice binding:
\* the voices sounding keep the frequency they were started with.
C25_OctaveOnlyByOctaveKeys ==
    [][/\ currentOctave' # currentOctave =>
             /\ PressEdge
             /\ KeyAt(pos) \in {0, 1}
             /\ toneCalls' = <<>>
             /\ UNCHANGED <<activeBuzzerMatrix, activeBuzzers, buzzerCount, softTone>>
             /\ \A q \in Cells : Chromatic(q) =>
                   activeKeyMatrix'[Row(q)][Col(q)] = activeKeyMatrix[Row(q)][Col(q)]
       /\ (CellStepTaken /\ (Chromatic(pos) \/ KeyAt(pos) = 15 \/ ReleaseEdge)) =>
             currentOctave' = currentOctave
       /\ ~CellStepTaken => currentOctave' = currentOctave
      ]_vars

\* C25 witness: the octave-down key has just taken the octave from 4 to 3 while
\* key 2 goes on sounding on pin 14 at its frequency of octave 4
C25_Witness ==
    /\ pos = 2
    /\ currentOctave = 3
    /\ Active(1)
    /\ Active(2)
    /\ activeBuzzerMatrix[0][2] = 14
    /\ softTone[14] = keyToFreq(2, 4)
    /\ softTone[14] # keyToFreq(2, 3)
    /\ toneCalls = <<>>

\* C26: in every reachable state the three records of the pool agree:
\* buzzerCount is not negative and is the number of non-zero entries of
\* activeBuzzers, which is the number of chromatic cells marked active; each of
\* these cells holds a non-zero pin in activeBuzzerMatrix, and every other cell
\* holds 0 there.
C26_PoolRecordsAgree ==
    LET held == {p \in Cells : Chromatic(p) /\ Active(p)}
    IN  /\ buzzerCount >= 0
        /\ buzzerCount = Cardinality({k \in Slots : activeBuzzers[k] # 0})
        /\ buzzerCount = Cardinality(held)
        /\ \A p \in Cells : (p \in held) <=> (BoundPin(p) # 0)

\* C26 witness: of four voices the second (pin 15, key 3) has been released:
\* three voices are bound, with a free slot between them
C26_Witness ==
    /\ Returned
    /\ buzzerCount = 3
    /\ activeBuzzers[0] = 14
    /\ activeBuzzers[1] = 0
    /\ activeBuzzers[3] = 23
    /\ ~Active(3)
    /\ BoundPin(8) = 23

\* C27: on each buzzer pin tone-start calls and silence calls alternate,
\* beginning with a tone-start: no pin sounds at the start; every call is made
\* on a buzzer pin; a tone-start (a non-zero frequency) is made only on a pin
\* that is silent and a silence call only on a pin that is sounding; and a pin's
\* state changes by these calls only.
C27_StartAndSilenceAlternate ==
    /\ (\A pin \in TonePins : softTone[pin] = 0)
    /\ [][/\ CellStepTaken =>
                /\ Len(toneCalls') <= 1
                /\ \A n \in 1..Len(toneCalls') :
                      LET call == toneCalls'[n]
                      IN  /\ call.pin \in BuzzerPinSet
                          /\ call.freq >= 0
                          /\ call.freq > 0 => softTone[call.pin] = 0
                          /\ call.freq = 0 => softTone[call.pin] > 0
                          /\ softTone' = [softTone EXCEPT ![call.pin] = call.freq]
                /\ toneCalls' = <<>> => softTone' = softTone
          /\ ~CellStepTaken => softTone' = softTone
         ]_vars

\* C27 witness: pin 14, silenced when its first key was released, has just been
\* started again for the key of cell (3,2) while pin 15 goes on sounding
C27_Witness ==
    /\ pos = 15
    /\ Len(toneCalls) = 1
    /\ toneCalls[1].pin = 14
    /\ toneCalls[1].freq > 0
    /\ activeBuzzerMatrix[3][2] = 14
    /\ ~Active(2)
    /\ softTone[15] > 0

\* The slots of activeKeys that hold a key
OldOccupied == {k \in 0..(maxActiveKeys - 1) : old.activeKeys[k].x # -1}

\* The index in keyEntries of an entry
OldKeyOf(entry) == entry.y * 4 + entry.x

\* The second loop processes slot i in this step
OldSlotStepTaken == old.phase = "slots" /\ old' # old

\* C28 as stated: in pi_ano_old.c every key that occupies a slot i with
\* playing[i] set has had its tone started on buzzerPins[i], the fourth of four
\* held keys included, and currentActiveKeys is the number of occupied slots
\* and never above 4.
C28_EveryHeldKeySounds ==
    /\ \A k \in OldOccupied :
          old.playing[k] = 1 =>
             old.tone[buzzerPins_old[k]] =
                frequency_old(OldKeyOf(old.activeKeys[k]), old.octave)
    /\ old.currentActiveKeys = Cardinality(OldOccupied)
    /\ old.currentActiveKeys <= 4

\* C28, what pi_ano_old.c does: currentActiveKeys is the number of occupied
\* slots, within 0..4; the slot of a new key is marked playing in every case,
\* but its tone is started only if currentActiveKeys, which already counts the
\* key, is below 4: with four slots occupied no tone is started; and a key that
\* took over a slot still marked playing gets no tone either.
C28_ToneOnlyBelowFour ==
    /\ [](/\ old.currentActiveKeys = Cardinality(OldOccupied)
           /\ old.currentActiveKeys >= 0
           /\ old.currentActiveKeys <= 4)
    /\ [][(OldSlotStepTaken /\ old.i \in OldOccupied) =>
             LET i == old.i
                 pin == buzzerPins_old[i]
                 freq == frequency_old(OldKeyOf(old.activeKeys[i]), old.octave)
             IN  /\ old'.playing[i] = 1
                 /\ (old.playing[i] = 0 /\ old.currentActiveKeys < 4) =>
                        /\ old'.calls = <<[pin |-> pin, freq |-> freq]>>
                        /\ old'.tone = [old.tone EXCEPT ![pin] = freq]
                 /\ (old.playing[i] = 0 /\ old.currentActiveKeys >= 4) =>
                        /\ old'.calls = <<>>
                        /\ old'.tone = old.tone
                 /\ old.playing[i] = 1 =>
                        /\ old'.calls = <<>>
                        /\ old'.tone = old.tone]_vars

\* C28 witness: keys 0..3 were pressed within one pass: they occupy the four
\* slots, every slot is marked playing, and no pin has been given a tone
C28_Witness ==
    /\ old.phase = "keys"
    /\ old.currentActiveKeys = 4
    /\ \A k \in 0..3 : old.activeKeys[k] = keyEntries[k]
    /\ \A k \in 0..3 : old.playing[k] = 1
    /\ \A k \in 0..3 : old.tone[buzzerPins_old[k]] = 0

====
